---- MODULE Spec2Model ----
(***************************************************************************)
(* Model of salt/states/archive.py: the state function extracted().        *)
(*                                                                         *)
(* Representation of Python values:                                        *)
(*  - a Python string is a sequence of tokens.  Paths and tar options are  *)
(*    kept character by character (one token per character) because the    *)
(*    code looks inside them (replace('/', '_'), `opt in tar_options`);    *)
(*    a file name with an extension and the component '..' are one token;  *)
(*    literal message text is kept as one token per literal.  String       *)
(*    concatenation and str.format are \o.                                  *)
(*  - None is the token sequence PyNone for optional strings; the tri-state *)
(*    ret['result'] is one of "True", "False", "None".                     *)
(*  - a dict is a record; the empty dict is EmptyDict.                     *)
(*  - the filesystem is the pair fsDirs, fsFiles of existing paths.        *)
(* One call of extracted() is a run of steps from Call to pc = "done";     *)
(* exit tells how the call ended: by which return statement, or "raised"   *)
(* when an exception left the function and no value was returned.          *)
(* every collaborator invocation is appended to calls.  hist is the record  *)
(* a caller that repeats one request keeps of the calls it has made.       *)
(***************************************************************************)
EXTENDS Integers, Sequences, FiniteSets, TLC

VARIABLES fsDirs, fsFiles, req, opts, pc, if_missing, tar_options, filename,
          file_result, results, probe, files, ret, calls, exit, fs0, prevKey,
          nCalls, hist

vars == <<fsDirs, fsFiles, req, opts, pc, if_missing, tar_options, filename,
          file_result, results, probe, files, ret, calls, exit, fs0, prevKey,
          nCalls, hist>>

\* ------------------------------------------------------------------ bounds
\* Number of calls of extracted() in one behaviour.
MaxCalls == 2

\* ---------------------------------------------------------- Python values
PyNone == <<"<None>">>

EmptyDict == <<>>

EmptyStr == <<>>

\* cmd.retcode has not been run in this call
NoProbe == -1

\* no call made yet
NoHistory == [request |-> <<>>, absent0 |-> FALSE, exits |-> <<>>]

\* ------------------------------------------------------------ input domain
P_o == <<"/", "o">>

P_p == <<"/", "p">>

P_oa == <<"/", "o", "/", "a">>

\* the directory /o written with a trailing slash
P_os == <<"/", "o", "/">>

CacheDir == <<"/", "c">>

Names == {P_o, P_p}

IfMissings == {PyNone, P_oa}

Formats == {"tar", "zip", "rar", "7z"}

TarOptions == {PyNone, <<"J">>}

\* source and source_hash vary together
Sources == {<<<<"salt://a.tar">>, PyNone>>, <<<<"http://h/b.zip">>, <<"md5=499a">>>>}

\* contents an archive file may have: its members in order, each a name
\* relative to the extraction directory and a kind
Archives ==
    {<<>>,
     <<[name |-> <<"a.txt">>, dir |-> FALSE], [name |-> <<"b.txt">>, dir |-> FALSE]>>,
     <<[name |-> <<"a">>, dir |-> TRUE],
       [name |-> <<"a", "/", "a.txt">>, dir |-> FALSE]>>,
     <<[name |-> <<"a.txt">>, dir |-> FALSE], [name |-> <<"a">>, dir |-> FALSE]>>,
     <<[name |-> <<"..", "/", "p", "/", "x.txt">>, dir |-> FALSE]>>}

\* captured output streams of the external tar command
Streams == {EmptyStr, <<"a.txt\n">>}

RetCodes == {0, 1}

\* tar_options is given with the tar format only (it is 'only used for tar
\* format')
Requests ==
    {r \in [name : Names, src : Sources, archive_format : Formats,
            tar_options : TarOptions, if_missing : IfMissings, keep : BOOLEAN] :
        r.archive_format # "tar" => r.tar_options = PyNone}

NoRequest ==
    [name |-> EmptyStr, src |-> <<EmptyStr, PyNone>>, archive_format |-> "tar",
     tar_options |-> PyNone, if_missing |-> PyNone, keep |-> FALSE]

\* --------------------------------------------------------- string helpers
RECURSIVE Replace(_, _, _)
\* str.replace(old, new) for one-character old
Replace(s, old, new) ==
    IF s = <<>> THEN <<>>
    ELSE <<IF Head(s) = old THEN new ELSE Head(s)>> \o Replace(Tail(s), old, new)

RECURSIVE StrJoin(_, _)
\* sep.join(list)
StrJoin(sep, list) ==
    IF list = <<>> THEN <<>>
    ELSE IF Len(list) = 1 THEN <<list[1]>>
    ELSE <<list[1], sep>> \o StrJoin(sep, Tail(list))

\* opt in s, for a one-character opt
CharIn(c, s) == \E i \in 1..Len(s) : s[i] = c

\* sub in s
Contains(s, sub) ==
    \E i \in 0..(Len(s) - Len(sub)) : SubSeq(s, i + 1, i + Len(sub)) = sub

\* os.path.join(a, b)
PathJoin(a, b) ==
    IF b # <<>> /\ Head(b) = "/" THEN b
    ELSE IF a = <<>> \/ a[Len(a)] = "/" THEN a \o b
    ELSE a \o <<"/">> \o b

\* proper ancestors of a path (the root itself is not tracked)
Parents(p) == {SubSeq(p, 1, i - 1) : i \in {j \in 2..Len(p) : p[j] = "/"}}

\* the root directory
Root == <<"/">>

\* q is p or lies below p
Under(p, q) ==
    \/ q = p
    \/ p = Root
    \/ /\ Len(q) > Len(p)
       /\ SubSeq(q, 1, Len(p)) = p
       /\ q[Len(p) + 1] = "/"

RECURSIVE Split(_)
\* p.split('/')
Split(p) ==
    IF p = <<>> THEN <<<<>>>>
    ELSE LET r == Split(Tail(p)) IN
         IF Head(p) = "/" THEN <<<<>>>> \o r
         ELSE <<<<Head(p)>> \o Head(r)>> \o Tail(r)

\* the number of leading slashes os.path.normpath keeps: exactly two stay
\* two, three or more become one
InitialSlashes(p) ==
    IF p = <<>> \/ Head(p) # "/" THEN 0
    ELSE IF Len(p) >= 2 /\ p[2] = "/" /\ ~(Len(p) >= 3 /\ p[3] = "/") THEN 2
    ELSE 1

IsDotDot(c) == c = <<"..">> \/ c = <<".", ".">>

RECURSIVE NormComps(_, _, _)
\* os.path.normpath, the loop over the components: '' and '.' are dropped,
\* '..' removes the component before it, is dropped at the root and is kept
\* at the start of a relative path or after another '..'
NormComps(cs, acc, n) ==
    IF cs = <<>> THEN acc
    ELSE IF Head(cs) = <<>> \/ Head(cs) = <<".">> THEN NormComps(Tail(cs), acc, n)
    ELSE IF \/ ~IsDotDot(Head(cs))
            \/ (n = 0 /\ acc = <<>>)
            \/ (acc # <<>> /\ IsDotDot(acc[Len(acc)]))
         THEN NormComps(Tail(cs), Append(acc, Head(cs)), n)
    ELSE IF acc # <<>> THEN NormComps(Tail(cs), SubSeq(acc, 1, Len(acc) - 1), n)
    ELSE NormComps(Tail(cs), acc, n)

RECURSIVE SlashJoin(_)
\* '/'.join(comps)
SlashJoin(cs) ==
    IF cs = <<>> THEN <<>>
    ELSE IF Len(cs) = 1 THEN cs[1]
    ELSE cs[1] \o <<"/">> \o SlashJoin(Tail(cs))

\* os.path.normpath, the rejoin: '/' * initial_slashes + '/'.join(comps)
JoinComps(n, cs) == [i \in 1..n |-> "/"] \o SlashJoin(cs)

\* os.path.normpath
NormPath(p) ==
    IF p = <<>> THEN <<".">>
    ELSE LET n == InitialSlashes(p)
             r == JoinComps(n, NormComps(Split(p), <<>>, n))
         IN  IF r = <<>> THEN <<".">> ELSE r

\* the filesystem entry an absolute path names: the kernel resolves '//a'
\* and '/a' to the same entry, and '//' to the root
Entry(p) ==
    LET n == NormPath(p)
    IN  IF Len(n) >= 2 /\ n[1] = "/" /\ n[2] = "/" THEN Tail(n) ELSE n

\* --------------------------------------------------- extracted(): pieces
valid_archives == <<"tar", "rar", "zip">>

\* variant: the format is only checked against the formats ever requested
ValidFormat_AnyKnown(f) == f \in Formats

ValidFormat(f) == \E i \in 1..Len(valid_archives) : valid_archives[i] = f

InitialRet(name) ==
    [name |-> name, result |-> "None", changes |-> EmptyDict, comment |-> EmptyStr]

UnsupportedComment(name) ==
    name \o <<" is not supported, valids: ">> \o StrJoin(",", valid_archives)

DefaultIfMissing(r) == IF r.if_missing = PyNone THEN r.name ELSE r.if_missing

\* the root directory always exists and is not kept in fsDirs
DirectoryExists(p) == Entry(p) = Root \/ Entry(p) \in fsDirs

\* a path written with a trailing slash does not name a regular file
FileExists(p) == p[Len(p)] # "/" /\ Entry(p) \in fsFiles

OsPathExists(p) == DirectoryExists(p) \/ FileExists(p)

\* variant: only file.directory_exists is consulted
MarkerExists_DirOnly(p) == DirectoryExists(p)

MarkerExists(p) == DirectoryExists(p) \/ FileExists(p)

ExistsComment(m) == m \o <<" already exists">>

\* variant: the cache file is named after name instead of if_missing
FileName_FromName(cachedir, m, f) ==
    PathJoin(cachedir, Replace(req.name, "/", "_") \o <<".">> \o <<f>>)

FileName(cachedir, m, f) ==
    PathJoin(cachedir, Replace(m, "/", "_") \o <<".">> \o <<f>>)

\* variant: the archive is downloaded on every call
NeedFetch_Always(fn) == TRUE

NeedFetch(fn) == ~OsPathExists(fn)

WouldDownloadComment(source, name) ==
    <<"Archive ">> \o source \o <<" would have been downloaded in cache">>

WouldExtractComment(source, name) ==
    <<"Archive ">> \o source \o <<" would have been extracted in ">> \o name

\* the data passed to state.high
FetchData(fn, source, source_hash) ==
    [name |-> fn, source |-> source, source_hash |-> source_hash, makedirs |-> TRUE]

\* results the file.managed state may report for the cache file
FetchResults(fn) ==
    {[name |-> fn, result |-> "True", changes |-> EmptyDict,
      comment |-> <<"File updated">>],
     [name |-> fn, result |-> "False", changes |-> EmptyDict,
      comment |-> <<"Source file not found">>],
     [name |-> fn, result |-> "False", changes |-> EmptyDict,
      comment |-> <<"Checksum mismatch">>],
     [name |-> fn, result |-> "False", changes |-> [diff |-> <<"New file">>],
      comment |-> <<"Failed to change mode">>]}

\* variant: the result of the download is not looked at
FetchFailed_Ignored(fr) == FALSE

FetchFailed(fr) == fr.result # "True"

\* variant: the failure is wrapped in the state's own ret
FetchFailRet_Wrapped(fr) ==
    [name |-> req.name, result |-> "False", changes |-> EmptyDict,
     comment |-> fr.comment]

FetchFailRet(fr) == fr

\* variant: the flag is prepended without looking for it
AddOpt_Always(opt, t) == <<"-", opt, " ">> \o t

AddOpt(opt, t) == IF ~CharIn(opt, t) THEN <<"-", opt, " ">> \o t ELSE t

NormalizeTarOptions(t) == AddOpt("f", AddOpt("x", t))

TarCommand(t, fn) == <<"tar ">> \o t \o <<" \"">> \o fn \o <<"\"">>

ToolFailed(r) == r.retcode # 0

\* variant: the command result is not attached
ToolFailRet_NoChanges(r0, r) == [r0 EXCEPT !.result = "False"]

ToolFailRet(r0, r) == [r0 EXCEPT !.result = "False", !.changes = r]

\* variant: the streams are taken the wrong way round
TarFiles_Swapped(isBsd, r) ==
    LET out == IF isBsd THEN r.stdout ELSE r.stderr
    IN  IF out = EmptyStr THEN <<"no tar output so far">> ELSE out

\* variant: no placeholder for an empty capture
TarFiles_NoPlaceholder(isBsd, r) == IF isBsd THEN r.stderr ELSE r.stdout

TarFiles(isBsd, r) ==
    LET out == IF isBsd THEN r.stderr ELSE r.stdout
    IN  IF out = EmptyStr THEN <<"no tar output so far">> ELSE out

\* variant: if_missing is never reported
DirectoriesCreated_NameOnly(name, m) == <<name>>

DirectoriesCreated(name, m) == IF m # name THEN <<name, m>> ELSE <<name>>

ExtractedComment(source, name) == source \o <<" extracted in ">> \o name

CantExtractComment(source) == <<"Can't extract content of ">> \o source

\* variant: the target directory is removed instead of if_missing
RollbackPath_Name(name, m) == name

RollbackPath(name, m) == m

\* variant: the directories are recorded before the entries are looked at
EmptyRet_WithDirs(r0, source) ==
    [r0 EXCEPT !.result = "False",
               !.changes = [directories_created |-> <<r0.name>>],
               !.comment = CantExtractComment(source)]

EmptyRet(r0, source) ==
    [r0 EXCEPT !.result = "False", !.comment = CantExtractComment(source)]

ShouldUnlink(keep) == ~keep

\* ------------------------------------------------------- collaborators
Invoke(fn, args) == calls' = Append(calls, [fn |-> fn, args |-> args])

\* file.makedirs: the directory and its missing parents
MakeDirectories(p) == fsDirs \cup (({Entry(p)} \cup Parents(Entry(p))) \ {Root})

\* file.remove: the path and everything below it
RemoveFrom(S, p) == {q \in S : ~Under(Entry(p), q)}

\* tarfile.getnames, and the lists archive.unzip and archive.unrar return
GetNames(a) == [i \in 1..Len(a) |-> a[i].name]

\* where a member lands when the archive is unpacked into directory name;
\* a member name is not confined to that directory
MemberPath(name, m) == Entry(PathJoin(name, m))

\* directories the first k members make: directory members and the missing
\* parents of every member
ExtractedDirs(name, a, k) ==
    UNION {Parents(MemberPath(name, a[i].name))
             \cup (IF a[i].dir THEN {MemberPath(name, a[i].name)} ELSE {})
           : i \in 1..k}

\* regular files the first k members make
ExtractedFiles(name, a, k) ==
    {MemberPath(name, a[i].name) : i \in {j \in 1..k : ~a[j].dir}}

RECURSIVE UnpackFrom(_, _, _, _, _)
\* TarFile.extractall from member i on, over directories ds and files fs.
\* The members are unpacked in order.  A member below a regular file
\* (ENOTDIR) and a file member on a directory (EISDIR) raise and end the
\* unpacking with what the members before have made; a directory member on a
\* regular file is passed over (os.mkdir's EEXIST is ignored); a file member
\* on a regular file replaces it.
UnpackFrom(name, a, i, ds, fs) ==
    IF i > Len(a) THEN [dirs |-> ds, files |-> fs, raised |-> FALSE]
    ELSE LET q == MemberPath(name, a[i].name)
             up == Parents(q)
         IN  IF up \cap fs # {} THEN [dirs |-> ds, files |-> fs, raised |-> TRUE]
             ELSE IF a[i].dir
                  THEN UnpackFrom(name, a, i + 1,
                                  ds \cup up \cup (IF q \in fs THEN {} ELSE {q}), fs)
             ELSE IF q \in ds
                  THEN [dirs |-> ds \cup up, files |-> fs, raised |-> TRUE]
             ELSE UnpackFrom(name, a, i + 1, ds \cup up, fs \cup {q})

\* tar.extractall(name) on the current filesystem
Unpack(name, a) == UnpackFrom(name, a, 1, fsDirs, fsFiles)

\* no member lands on an existing entry of the other kind
Extractable(name, a) ==
    /\ ExtractedDirs(name, a, Len(a)) \cap fsFiles = {}
    /\ ExtractedFiles(name, a, Len(a)) \cap fsDirs = {}

\* ------------------------------------------------------------------ Init
Init ==
    /\ fsDirs \in {{CacheDir}, {CacheDir, P_o}}
    /\ fsFiles = {}
    /\ req = NoRequest
    /\ opts = [test |-> FALSE, cachedir |-> CacheDir]
    /\ pc = "idle"
    /\ if_missing = PyNone
    /\ tar_options = PyNone
    /\ filename = EmptyStr
    /\ file_result = EmptyDict
    /\ results = EmptyDict
    /\ probe = NoProbe
    /\ files = <<>>
    /\ ret = InitialRet(EmptyStr)
    /\ calls = <<>>
    /\ exit = "none"
    /\ fs0 = <<fsDirs, fsFiles>>
    /\ prevKey = <<>>
    /\ nCalls = 0
    /\ hist = NoHistory

\* --------------------------------------------------------------- actions
\* entry of extracted() with arguments r and __opts__['test'] = t: arguments
\* bound, ret built (line 76)
Enter(r, t) ==
    /\ req' = r
    /\ opts' = [opts EXCEPT !.test = t]
    /\ if_missing' = r.if_missing
    /\ tar_options' = r.tar_options
    /\ ret' = InitialRet(r.name)
    /\ fs0' = <<fsDirs, fsFiles>>
    /\ nCalls' = nCalls + 1
    /\ pc' = "check_format"
    /\ UNCHANGED <<fsDirs, fsFiles, filename, file_result, results, probe, files,
                   calls, exit, prevKey>>

\* the return statements (lines 83, 93, 105, 126, 134, 158, 178) and an
\* exception leaving the function: the frame of the call is dropped; only the
\* filesystem outlives it
DropFrame ==
    /\ req' = NoRequest
    /\ opts' = [opts EXCEPT !.test = FALSE]
    /\ if_missing' = PyNone
    /\ tar_options' = PyNone
    /\ filename' = EmptyStr
    /\ file_result' = EmptyDict
    /\ results' = EmptyDict
    /\ probe' = NoProbe
    /\ files' = <<>>
    /\ ret' = InitialRet(EmptyStr)
    /\ calls' = <<>>
    /\ exit' = "none"
    /\ fs0' = <<fsDirs, fsFiles>>
    /\ pc' = "idle"
    /\ UNCHANGED <<fsDirs, fsFiles, nCalls>>

\* a call with any request
Call ==
    /\ pc = "idle"
    /\ nCalls < MaxCalls
    /\ \E r \in Requests, t \in BOOLEAN : Enter(r, t)
    /\ UNCHANGED hist

Return ==
    /\ pc = "done"
    /\ DropFrame
    /\ UNCHANGED <<hist, prevKey>>

\* lines 79-83
CheckFormat ==
    /\ pc = "check_format"
    /\ IF ~ValidFormat(req.archive_format)
       THEN /\ ret' = [ret EXCEPT !.result = "False",
                                  !.comment = UnsupportedComment(req.name)]
            /\ exit' = "unsupported"
            /\ pc' = "done"
       ELSE /\ pc' = "check_exists"
            /\ UNCHANGED <<ret, exit>>
    /\ UNCHANGED <<fsDirs, fsFiles, req, opts, if_missing, tar_options, filename,
                   file_result, results, files, calls, fs0, prevKey, nCalls,
                   probe, hist>>

\* lines 85-93
CheckExists ==
    /\ pc = "check_exists"
    /\ LET m == DefaultIfMissing(req) IN
          /\ if_missing' = m
          /\ calls' = IF DirectoryExists(m)
                      THEN Append(calls, [fn |-> "file.directory_exists", args |-> <<m>>])
                      ELSE calls \o <<[fn |-> "file.directory_exists", args |-> <<m>>],
                                      [fn |-> "file.file_exists", args |-> <<m>>]>>
          /\ IF MarkerExists(m)
             THEN /\ ret' = [ret EXCEPT !.result = "True",
                                        !.comment = ExistsComment(m)]
                  /\ exit' = "exists"
                  /\ pc' = "done"
             ELSE /\ pc' = "resolve_cache"
                  /\ UNCHANGED <<ret, exit>>
    /\ UNCHANGED <<fsDirs, fsFiles, req, opts, tar_options, filename,
                   file_result, results, files, fs0, prevKey, nCalls,
                   probe, hist>>

\* lines 96-105 and 127-128
ResolveCache ==
    /\ pc = "resolve_cache"
    /\ LET fn == FileName(opts.cachedir, if_missing, req.archive_format) IN
          /\ filename' = fn
          /\ Invoke("os.path.exists", <<fn>>)
          /\ IF NeedFetch(fn)
             THEN IF opts.test
                  THEN /\ ret' = [ret EXCEPT !.result = "None",
                                   !.comment = WouldDownloadComment(req.src[1], req.name)]
                       /\ exit' = "would_download"
                       /\ pc' = "done"
                  ELSE /\ pc' = "fetch"
                       /\ UNCHANGED <<ret, exit>>
             ELSE /\ pc' = "check_test"
                  /\ UNCHANGED <<ret, exit>>
    /\ UNCHANGED <<fsDirs, fsFiles, req, opts, if_missing, tar_options,
                   file_result, results, files, fs0, prevKey, nCalls,
                   probe, hist>>

\* lines 107-126
Fetch ==
    /\ pc = "fetch"
    /\ Invoke("state.high", <<FetchData(filename, req.src[1], req.src[2])>>)
    /\ \E fr \in FetchResults(filename) :
          /\ file_result' = fr
          /\ IF FetchFailed(fr)
             THEN /\ ret' = FetchFailRet(fr)
                  /\ exit' = "fetch_failed"
                  /\ pc' = "done"
                  /\ UNCHANGED <<fsDirs, fsFiles>>
             ELSE /\ fsFiles' = fsFiles \cup {filename}
                  /\ fsDirs' = fsDirs \cup Parents(filename)
                  /\ pc' = "check_test"
                  /\ UNCHANGED <<ret, exit>>
    /\ UNCHANGED <<req, opts, if_missing, tar_options, filename,
                   results, files, fs0, prevKey, nCalls,
                   probe, hist>>

\* variant: the second test-mode check (line 130) is missing
CheckTest_Missing ==
    /\ pc = "check_test"
    /\ pc' = "makedirs"
    /\ UNCHANGED <<fsDirs, fsFiles, req, opts, if_missing, tar_options, filename,
                   file_result, results, files, ret, calls, exit, fs0, prevKey, nCalls,
                   probe, hist>>

\* lines 130-134
CheckTest ==
    /\ pc = "check_test"
    /\ IF opts.test
       THEN /\ ret' = [ret EXCEPT !.result = "None",
                        !.comment = WouldExtractComment(req.src[1], req.name)]
            /\ exit' = "would_extract"
            /\ pc' = "done"
       ELSE /\ pc' = "makedirs"
            /\ UNCHANGED <<ret, exit>>
    /\ UNCHANGED <<fsDirs, fsFiles, req, opts, if_missing, tar_options, filename,
                   file_result, results, files, calls, fs0, prevKey, nCalls,
                   probe, hist>>

\* variant: the target directory is not made (line 136 missing)
MakeDirs_Skipped ==
    /\ pc = "makedirs"
    /\ pc' = "dispatch"
    /\ UNCHANGED <<fsDirs, fsFiles, req, opts, if_missing, tar_options, filename,
                   file_result, results, probe, files, ret, calls, exit, fs0,
                   prevKey, nCalls, hist>>

\* line 136
MakeDirs ==
    /\ pc = "makedirs"
    /\ Invoke("file.makedirs", <<req.name>>)
    /\ fsDirs' = MakeDirectories(req.name)
    /\ pc' = "dispatch"
    /\ UNCHANGED <<fsFiles, req, opts, if_missing, tar_options, filename,
                   file_result, results, files, ret, exit, fs0, prevKey, nCalls,
                   probe, hist>>

\* lines 138-141
ExtractZipRar ==
    /\ pc = "dispatch"
    /\ req.archive_format \in {"zip", "rar"}
    /\ Invoke("archive.un" \o req.archive_format, <<filename, req.name>>)
    /\ \E a \in {b \in Archives : Extractable(req.name, b)} :
          /\ files' = GetNames(a)
          /\ fsDirs' = fsDirs \cup ExtractedDirs(req.name, a, Len(a))
          /\ fsFiles' = fsFiles \cup ExtractedFiles(req.name, a, Len(a))
    /\ pc' = "account"
    /\ UNCHANGED <<req, opts, if_missing, tar_options, filename,
                   file_result, results, ret, exit, fs0, prevKey, nCalls,
                   probe, hist>>

\* lines 142-146: the cache file is either not a readable tar archive, and
\* tarfile.open raises tarfile.ReadError out of extracted() before files is
\* bound, or it is an archive: line 145 binds files to its names and line
\* 146 unpacks its members, raising IOError out of extracted() at a member
\* that cannot be written
ExtractTarfile ==
    /\ pc = "dispatch"
    /\ req.archive_format \notin {"zip", "rar"}
    /\ tar_options = PyNone
    /\ Invoke("tarfile.open", <<filename, req.name>>)
    /\ \/ /\ exit' = "raised"
          /\ pc' = "done"
          /\ UNCHANGED <<files, fsDirs, fsFiles>>
       \/ \E a \in Archives :
             LET u == Unpack(req.name, a) IN
             /\ files' = GetNames(a)
             /\ fsDirs' = u.dirs
             /\ fsFiles' = u.files
             /\ IF u.raised
                THEN exit' = "raised" /\ pc' = "done"
                ELSE pc' = "account" /\ UNCHANGED exit
    /\ UNCHANGED <<req, opts, if_missing, tar_options, filename,
                   file_result, results, ret, fs0, prevKey, nCalls,
                   probe, hist>>

\* lines 147-158: a tar command that exits with 0 has unpacked every member;
\* one that fails has unpacked none or all of them
ExtractTarCmd ==
    /\ pc = "dispatch"
    /\ req.archive_format \notin {"zip", "rar"}
    /\ tar_options # PyNone
    /\ LET t == NormalizeTarOptions(tar_options) IN
          /\ tar_options' = t
          /\ Invoke("cmd.run_all", <<TarCommand(t, filename), req.name>>)
    /\ \E rc \in RetCodes, so \in Streams, se \in Streams,
          a \in {b \in Archives : Extractable(req.name, b)} :
       \E k \in (IF rc = 0 THEN {Len(a)} ELSE {0, Len(a)}) :
          LET r == [retcode |-> rc, stdout |-> so, stderr |-> se] IN
          /\ results' = r
          /\ fsDirs' = fsDirs \cup ExtractedDirs(req.name, a, k)
          /\ fsFiles' = fsFiles \cup ExtractedFiles(req.name, a, k)
          /\ IF ToolFailed(r)
             THEN /\ ret' = ToolFailRet(ret, r)
                  /\ exit' = "tool_failed"
                  /\ pc' = "done"
             ELSE /\ pc' = "probe"
                  /\ UNCHANGED <<ret, exit>>
    /\ UNCHANGED <<req, opts, if_missing, filename,
                   file_result, files, fs0, prevKey, nCalls,
                   probe, hist>>

\* lines 159-164
ProbeTar ==
    /\ pc = "probe"
    /\ Invoke("cmd.retcode", <<<<"tar --version | grep bsdtar">>>>)
    /\ \E rc \in RetCodes :
          /\ probe' = rc
          /\ files' = TarFiles(rc = 0, results)
    /\ pc' = "account"
    /\ UNCHANGED <<fsDirs, fsFiles, req, opts, if_missing, tar_options, filename,
                   file_result, results, ret, exit, fs0, prevKey, nCalls, hist>>

\* lines 165-178
Account ==
    /\ pc = "account"
    /\ IF Len(files) > 0
       THEN /\ ret' = [ret EXCEPT
                        !.result = "True",
                        !.changes = [directories_created |->
                                         DirectoriesCreated(req.name, if_missing),
                                     extracted_files |-> files],
                        !.comment = ExtractedComment(req.src[1], req.name)]
            /\ IF ShouldUnlink(req.keep)
               THEN /\ Invoke("os.unlink", <<filename>>)
                    /\ fsFiles' = fsFiles \ {filename}
               ELSE UNCHANGED <<calls, fsFiles>>
            /\ exit' = "changed"
            /\ UNCHANGED fsDirs
       ELSE /\ Invoke("file.remove", <<RollbackPath(req.name, if_missing)>>)
            /\ fsDirs' = RemoveFrom(fsDirs, RollbackPath(req.name, if_missing))
            /\ fsFiles' = RemoveFrom(fsFiles, RollbackPath(req.name, if_missing))
            /\ ret' = EmptyRet(ret, req.src[1])
            /\ exit' = "empty"
    /\ pc' = "done"
    /\ UNCHANGED <<req, opts, if_missing, tar_options, filename,
                   file_result, results, files, fs0, prevKey, nCalls,
                   probe, hist>>

Next ==
    \/ Call
    \/ CheckFormat
    \/ CheckExists
    \/ ResolveCache
    \/ Fetch
    \/ CheckTest
    \/ MakeDirs
    \/ ExtractZipRar
    \/ ExtractTarfile
    \/ ExtractTarCmd
    \/ ProbeTar
    \/ Account
    \/ Return

Spec == Init /\ [][Next]_vars

\* ------------------------------------------- tar option normalisation
\* Calls of extracted() for a tar archive with tar_options drawn from all
\* short option strings and from their normalised forms.
MaxOptLen == 3

OptAlphabet == {"x", "f", "J", "-", " "}

OptStrings == UNION {[1..n -> OptAlphabet] : n \in 0..MaxOptLen}

NormalForms == {NormalizeTarOptions(t) : t \in OptStrings}

NormInputs == OptStrings \cup NormalForms

NormRequests ==
    [name : {P_os}, src : {<<<<"salt://a.tar">>, PyNone>>}, archive_format : {"tar"},
     tar_options : NormInputs, if_missing : {PyNone}, keep : BOOLEAN]

NormCall ==
    /\ pc = "idle"
    /\ nCalls < MaxCalls
    /\ \E r \in NormRequests : Enter(r, FALSE)
    /\ UNCHANGED hist

NextNorm ==
    \/ NormCall
    \/ CheckFormat
    \/ CheckExists
    \/ ResolveCache
    \/ Fetch
    \/ CheckTest
    \/ MakeDirs
    \/ ExtractTarCmd
    \/ ProbeTar
    \/ Account
    \/ Return

SpecNorm == Init /\ [][NextNorm]_vars

\* ------------------------------------------------------ cache file names
\* Test-mode calls of extracted() with if_missing drawn from all short
\* absolute paths: each call computes its cache file name and changes nothing.
MaxPathLen == 4

PathAlphabet == {"/", "_", "a"}

MarkerPaths ==
    {<<"/">> \o t : t \in UNION {[1..n -> PathAlphabet] : n \in 1..(MaxPathLen - 1)}}

KeyRequests ==
    [name : {P_o}, src : {<<<<"salt://a.tar">>, PyNone>>},
     archive_format : {"tar", "zip", "rar"}, tar_options : {PyNone},
     if_missing : MarkerPaths, keep : {FALSE}]

KeyCall ==
    /\ pc = "idle"
    /\ nCalls < MaxCalls
    /\ \E r \in KeyRequests : Enter(r, TRUE)
    /\ UNCHANGED hist

\* the return of a call whose marker, format and cache file name are noted
\* in prevKey for the next call to compare with
ReturnKeyed ==
    /\ pc = "done"
    /\ DropFrame
    /\ prevKey' = IF filename # EmptyStr
                  THEN <<if_missing, req.archive_format, filename>>
                  ELSE prevKey
    /\ UNCHANGED hist

NextKey ==
    \/ KeyCall
    \/ CheckFormat
    \/ CheckExists
    \/ ResolveCache
    \/ ReturnKeyed

SpecKey == Init /\ [][NextKey]_vars

\* ------------------------------------------------- one request, repeated
\* A caller that submits one request and submits it again after each return,
\* keeping in hist the request, whether its presence marker was absent
\* before the first call, and how each call ended.
FirstCall ==
    /\ pc = "idle"
    /\ nCalls = 0
    /\ nCalls < MaxCalls
    /\ \E r \in Requests, t \in BOOLEAN :
          /\ Enter(r, t)
          /\ hist' = [request |-> r,
                      absent0 |-> ~OsPathExists(DefaultIfMissing(r)),
                      exits |-> <<>>]

Retry ==
    /\ pc = "idle"
    /\ nCalls > 0
    /\ nCalls < MaxCalls
    /\ \E t \in BOOLEAN : Enter(hist.request, t)
    /\ UNCHANGED hist

ReturnToCaller ==
    /\ pc = "done"
    /\ DropFrame
    /\ hist' = [hist EXCEPT !.exits = Append(@, exit)]
    /\ UNCHANGED prevKey

NextRetry ==
    \/ FirstCall
    \/ Retry
    \/ CheckFormat
    \/ CheckExists
    \/ ResolveCache
    \/ Fetch
    \/ CheckTest
    \/ MakeDirs
    \/ ExtractZipRar
    \/ ExtractTarfile
    \/ ExtractTarCmd
    \/ ProbeTar
    \/ Account
    \/ ReturnToCaller

SpecRetry == Init /\ [][NextRetry]_vars

\* ------------------------------------------------- vocabulary of the claims
\* the presence marker of the current request: if_missing, defaulting to name
Marker == IF req.if_missing = PyNone THEN req.name ELSE req.if_missing

SupportedFormat == req.archive_format \in {"tar", "zip", "rar"}

\* path p names a directory of the set ds or a regular file of the set fs
IsDirIn(p, ds) == Entry(p) = Root \/ Entry(p) \in ds

IsFileIn(p, fs) == p[Len(p)] # "/" /\ Entry(p) \in fs

MarkerAtStart == IsDirIn(Marker, fs0[1]) \/ IsFileIn(Marker, fs0[2])

\* the call ended by a return statement
Returned == pc = "done" /\ exit # "raised"

\* cachedir/<if_missing with '/' replaced by '_'>.<archive_format>
CachePathOf(m, f) ==
    CacheDir \o <<"/">> \o [i \in 1..Len(m) |-> IF m[i] = "/" THEN "_" ELSE m[i]]
             \o <<".", f>>

CacheAtStart ==
    \/ CachePathOf(Marker, req.archive_format) \in fs0[1]
    \/ CachePathOf(Marker, req.archive_format) \in fs0[2]

CallsTo(F) == {i \in 1..Len(calls) : calls[i].fn \in F}

ExtractionFns == {"archive.unzip", "archive.unrar", "tarfile.open", "cmd.run_all"}

ShellFns == {"cmd.run_all", "cmd.retcode"}

EffectFns ==
    {"state.high", "file.makedirs", "file.remove", "os.unlink"}
        \cup ExtractionFns \cup ShellFns

NoEffects == CallsTo(EffectFns) = {} /\ <<fsDirs, fsFiles>> = fs0

InCall == pc # "idle"

\* ------------------------------------------------------------------ C1
\* C1: a call with a supported format whose presence marker exists (file or
\* directory) when the call starts ends with result True, the comment
\* '<marker> already exists' and empty changes, having invoked no fetch,
\* makedirs, extraction, shell, remove or unlink and left the filesystem as
\* it was, whatever the test flag and the cache hold.
C1_IdempotenceGate ==
    (InCall /\ SupportedFormat /\ MarkerAtStart) =>
        /\ NoEffects
        /\ pc \in {"check_format", "check_exists", "done"}
        /\ pc = "done" =>
              /\ exit = "exists"
              /\ ret.result = "True"
              /\ ret.comment = Marker \o <<" already exists">>
              /\ DOMAIN ret.changes = {}

\* the marker exists as a file and the archive is still in the cache
C1_Witness ==
    /\ pc = "done" /\ exit = "exists"
    /\ IsFileIn(Marker, fs0[2])
    /\ CachePathOf(Marker, req.archive_format) \in fsFiles

\* ------------------------------------------------------------------ C2
\* C2 as stated: in test mode with the presence marker absent the call has
\* no effect and ends with result None and empty changes.
C2_PreviewPurityAsStated ==
    (InCall /\ opts.test /\ ~MarkerAtStart) =>
        /\ NoEffects
        /\ pc = "done" => (ret.result = "None" /\ DOMAIN ret.changes = {})

\* C2 (amended): for a supported format, in test mode with the presence
\* marker absent, the call invokes no fetch, makedirs, extraction, shell,
\* remove or unlink, with the archive cached or not, leaves the filesystem as
\* it was, and ends with result None and empty changes.
C2_PreviewPurity ==
    (InCall /\ SupportedFormat /\ opts.test /\ ~MarkerAtStart) =>
        /\ NoEffects
        /\ pc = "done" =>
              /\ exit = (IF CacheAtStart THEN "would_extract" ELSE "would_download")
              /\ ret.result = "None"
              /\ DOMAIN ret.changes = {}

\* test mode with the archive already in the cache
C2_Witness ==
    /\ pc = "done" /\ opts.test /\ ~MarkerAtStart /\ CacheAtStart
    /\ exit = "would_extract"

\* ------------------------------------------------------------------ C3
\* C3: a call with a format other than tar, zip, rar ends with result False,
\* a comment naming tar, zip and rar and empty changes, and invokes no
\* collaborator at all (no existence check either), also when the marker
\* exists or test mode is on.
C3_UnsupportedFormat ==
    (InCall /\ ~SupportedFormat) =>
        /\ calls = <<>>
        /\ <<fsDirs, fsFiles>> = fs0
        /\ pc \in {"check_format", "done"}
        /\ pc = "done" =>
              /\ exit = "unsupported"
              /\ ret.result = "False"
              /\ \A f \in {"tar", "zip", "rar"} : CharIn(f, ret.comment)
              /\ DOMAIN ret.changes = {}

\* unsupported format while the marker exists and test mode is on
C3_Witness ==
    /\ pc = "done" /\ exit = "unsupported"
    /\ req.archive_format = "7z" /\ MarkerAtStart /\ opts.test

\* ------------------------------------------------------------------ C4
\* C4: the cache path is the same function of cachedir, presence marker and
\* format in every call, whatever name, source, source_hash, tar_options
\* and keep are, and a finished call has invoked the fetch exactly once if
\* the format is supported, the marker was absent, test mode is off and the
\* cache path did not exist, and not at all otherwise.
C4_CacheOrFetch ==
    /\ filename # EmptyStr => filename = CachePathOf(Marker, req.archive_format)
    /\ Cardinality(CallsTo({"state.high"})) <= 1
    /\ pc = "done" =>
          (CallsTo({"state.high"}) # {}
             <=> (SupportedFormat /\ ~MarkerAtStart /\ ~opts.test /\ ~CacheAtStart))

\* a later call that fetches into a cache directory holding the archive of
\* another marker, for a marker other than name
C4_Witness ==
    /\ pc = "done" /\ CallsTo({"state.high"}) # {}
    /\ nCalls >= 2 /\ Marker # req.name
    /\ \E q \in fs0[2] : q # filename

\* ------------------------------------------------------------------ C5
\* C5: when the fetch reports failure the call returns the fetch result
\* itself and the fetch is the last collaborator invoked: no makedirs,
\* extraction, shell, remove, unlink or second fetch.
C5_FetchFailurePassThrough ==
    /\ (InCall /\ file_result # EmptyDict /\ file_result.result # "True") =>
          /\ pc = "done" /\ exit = "fetch_failed"
          /\ ret = file_result
          /\ calls[Len(calls)].fn = "state.high"
          /\ CallsTo(EffectFns) = {Len(calls)}
    /\ exit = "fetch_failed" => (file_result # EmptyDict /\ file_result.result # "True")

C5_Witness ==
    /\ pc = "done" /\ exit = "fetch_failed"
    /\ file_result.comment = <<"Checksum mismatch">>

\* ------------------------------------------------------------------ C6
\* C6: for tar with tar_options, a nonzero exit of the tar command ends the
\* call with result False and changes equal to the raw command result; no
\* remove, no unlink, no tar-variant probe; the cache file and the target
\* directory made before the dispatch are still there.
C6_ExternalToolFailure ==
    /\ (InCall /\ results # EmptyDict /\ results.retcode # 0) =>
          /\ pc = "done" /\ exit = "tool_failed"
          /\ ret.result = "False"
          /\ ret.changes = results
          /\ CallsTo({"file.remove", "os.unlink", "cmd.retcode"}) = {}
          /\ calls[Len(calls)].fn = "cmd.run_all"
          /\ CachePathOf(Marker, req.archive_format) \in fsFiles
          /\ IsDirIn(req.name, fsDirs)
    /\ exit = "tool_failed" =>
          /\ results # EmptyDict /\ results.retcode # 0
          /\ req.archive_format = "tar" /\ req.tar_options # PyNone

C6_Witness ==
    /\ pc = "done" /\ exit = "tool_failed"
    /\ ~IsDirIn(req.name, fs0[1])
    /\ results.stderr # EmptyStr

\* ------------------------------------------------------------------ C7
\* C7: when the extraction step yields a non-empty entry sequence the call
\* ends with result True, comment '<source> extracted in <name>',
\* extracted_files equal to the entry sequence, directories_created equal to
\* [name] when the marker is name and [name, marker] otherwise; the cache
\* file is gone when keep is false and still there when keep is true.
\* (The step yields its entries when it comes back: a call that
\* tar.extractall leaves by an exception at line 146 hands nothing to the
\* accounting of lines 165-173, although line 145 has bound files.)
C7_SuccessAccounting ==
    (Returned /\ Len(files) > 0) =>
        /\ exit = "changed"
        /\ ret.result = "True"
        /\ ret.comment = req.src[1] \o <<" extracted in ">> \o req.name
        /\ DOMAIN ret.changes = {"directories_created", "extracted_files"}
        /\ ret.changes.extracted_files = files
        /\ ret.changes.directories_created =
              (IF Marker = req.name THEN <<req.name>> ELSE <<req.name, Marker>>)
        /\ req.keep <=> CachePathOf(Marker, req.archive_format) \in fsFiles
        /\ ~req.keep <=> CallsTo({"os.unlink"}) # {}

C7_Witness ==
    /\ Returned /\ exit = "changed"
    /\ Marker # req.name /\ ~req.keep
    /\ files = <<<<"a.txt">>, <<"b.txt">>>>

\* ------------------------------------------------------------------ C8
\* C8: when the extraction step (unzip, unrar, tarfile) comes back with an
\* empty entry list the call ends with result False, a comment containing
\* the source and empty changes; file.remove is invoked on the presence
\* marker, not on name when they differ; the cache file is not deleted.
\* (A raised call with no entry is one where tarfile.open raised before any
\* list was made: an archive without members has nothing that can fail.)
C8_EmptyExtraction ==
    /\ (Returned
          /\ CallsTo({"archive.unzip", "archive.unrar", "tarfile.open"}) # {}
          /\ Len(files) = 0) =>
          /\ exit = "empty"
          /\ ret.result = "False"
          /\ Contains(ret.comment, req.src[1])
          /\ DOMAIN ret.changes = {}
          /\ calls[Len(calls)] = [fn |-> "file.remove", args |-> <<Marker>>]
          /\ Cardinality(CallsTo({"file.remove"})) = 1
          /\ CallsTo({"os.unlink"}) = {}
          /\ CachePathOf(Marker, req.archive_format) \in fsFiles
    /\ exit = "empty" => (pc = "done" /\ Len(files) = 0)

C8_Witness ==
    /\ pc = "done" /\ exit = "empty"
    /\ Marker # req.name
    /\ IsDirIn(req.name, fsDirs)
    /\ CallsTo({"tarfile.open"}) # {}

\* ------------------------------------------------------------------ C9
\* C9: a cache file that exists stays until a call ends Changed with keep
\* false and unlinks it; the fetch is invoked only while the cache path does
\* not exist; a call that ends by empty extraction or by tar failure leaves
\* the cache file in place.
C9_CacheReuse ==
    [][ /\ \A m \in Names \cup IfMissings, f \in Formats :
              (CachePathOf(m, f) \in fsFiles /\ CachePathOf(m, f) \notin fsFiles') =>
                  /\ exit' = "changed" /\ ~req.keep
                  /\ m = Marker /\ f = req.archive_format
        /\ (Len(calls') > Len(calls) /\ calls'[Len(calls')].fn = "state.high") =>
              /\ CachePathOf(Marker, req.archive_format) \notin fsFiles
              /\ CachePathOf(Marker, req.archive_format) \in fsFiles'
                    \/ exit' = "fetch_failed"
        /\ exit' \in {"empty", "tool_failed"} =>
              CachePathOf(Marker', req'.archive_format) \in fsFiles'
      ]_vars

\* a retry after a failed extraction that finds the archive in the cache and
\* extracts without fetching
C9_Witness ==
    /\ pc = "done" /\ nCalls >= 2
    /\ CacheAtStart
    /\ CallsTo({"state.high"}) = {}
    /\ CallsTo(ExtractionFns) # {}
    /\ exit = "changed"

\* ------------------------------------------------------------------ C10
\* C10: every result built by extracted() itself (unsupported format,
\* already exists, both test-mode results, tar failure, extracted, empty
\* extraction) has a non-empty comment.
C10_MessagePresent ==
    (pc = "done" /\ exit \in {"unsupported", "exists", "would_download",
                              "would_extract", "tool_failed", "changed", "empty"})
        => Len(ret.comment) > 0

\* ------------------------------------------------------------------ C11
\* C11 as stated: in every result returned, changes is non-empty only when
\* the call ended Changed or by tar failure; it is empty for unsupported
\* format, already exists, both test-mode results, fetch failure and empty
\* extraction.
C11_ChangesOnlyAsStated ==
    Returned =>
        /\ DOMAIN ret.changes # {} => exit \in {"changed", "tool_failed"}
        /\ exit \in {"unsupported", "exists", "would_download", "would_extract",
                     "fetch_failed", "empty"} => DOMAIN ret.changes = {}

\* C11 (amended): changes is non-empty only when the call ended Changed, by
\* tar failure, or by fetch failure, where it is the changes of the fetch
\* result passed through; it is empty for unsupported format, already
\* exists, both test-mode results and empty extraction.
C11_ChangesOnly ==
    Returned =>
        /\ DOMAIN ret.changes # {} => exit \in {"changed", "tool_failed", "fetch_failed"}
        /\ exit \in {"unsupported", "exists", "would_download", "would_extract",
                     "empty"} => DOMAIN ret.changes = {}
        /\ exit = "fetch_failed" => ret.changes = file_result.changes

\* a failed fetch whose result carries changes of its own
C11_Witness ==
    /\ pc = "done" /\ exit = "fetch_failed"
    /\ DOMAIN ret.changes # {}
    /\ CallsTo({"file.makedirs"} \cup ExtractionFns) = {}

\* ------------------------------------------------------------------ C13
\* C13: for tar with tar_options and exit code 0 the tar-variant probe runs
\* exactly once; the file list is stderr when the probe returns 0 and stdout
\* otherwise, or the placeholder when that capture is empty; the call ends
\* Changed with that file list as extracted_files and file.remove is never
\* invoked.
C13_ExternalToolSuccess ==
    (pc = "done" /\ results # EmptyDict /\ results.retcode = 0) =>
        /\ Cardinality(CallsTo({"cmd.retcode"})) = 1
        /\ probe \in {0, 1}
        /\ exit = "changed"
        /\ ret.result = "True"
        /\ CallsTo({"file.remove"}) = {}
        /\ LET capture == IF probe = 0 THEN results.stderr ELSE results.stdout IN
              ret.changes.extracted_files =
                  (IF Len(capture) = 0 THEN <<"no tar output so far">> ELSE capture)

\* BSD tar that listed the files on stderr and nothing on stdout
C13_Witness ==
    /\ pc = "done" /\ results # EmptyDict /\ results.retcode = 0
    /\ probe = 0
    /\ results.stderr # EmptyStr /\ results.stdout = EmptyStr
    /\ ret.changes.extracted_files = results.stderr

\* ------------------------------------------------------------------ C14
\* the tar extraction of the finished call produced no output
TarfileNoOutput == CallsTo({"tarfile.open"}) # {} /\ exit # "raised" /\ Len(files) = 0

TarCmdNoOutput ==
    /\ results # EmptyDict /\ results.retcode = 0
    /\ (IF probe = 0 THEN results.stderr ELSE results.stdout) = EmptyStr

RolledBack ==
    /\ exit = "empty" /\ ret.result = "False"
    /\ calls[Len(calls)] = [fn |-> "file.remove", args |-> <<Marker>>]

\* C14 as stated: a tar extraction with zero output ends Failed with the
\* presence marker rolled back, on the tarfile path and on the tar command
\* path (exit code 0, empty capture) alike.
C14_ZeroOutputAsStated ==
    (pc = "done" /\ (TarfileNoOutput \/ TarCmdNoOutput)) => RolledBack

\* C14 (amended): zero output is a failure on the tarfile path only: a
\* tarfile extraction that lists no entry names ends Failed with the presence
\* marker rolled back; a tar command with exit code 0 and an empty capture
\* ends Changed with the placeholder as extracted_files and no rollback.
C14_ZeroOutput ==
    /\ (pc = "done" /\ TarfileNoOutput) => RolledBack
    /\ (pc = "done" /\ TarCmdNoOutput) =>
          /\ exit = "changed" /\ ret.result = "True"
          /\ ret.changes.extracted_files = <<"no tar output so far">>
          /\ CallsTo({"file.remove"}) = {}

\* the tar command printed nothing at all
C14_Witness ==
    /\ pc = "done" /\ TarCmdNoOutput
    /\ results.stdout = EmptyStr /\ results.stderr = EmptyStr

\* ------------------------------------------------------------------ C15
\* position of a collaborator in the order of the function body
StepRank(fn) ==
    CASE fn = "file.directory_exists" -> 1
      [] fn = "file.file_exists" -> 2
      [] fn = "os.path.exists" -> 3
      [] fn = "state.high" -> 4
      [] fn = "file.makedirs" -> 5
      [] fn \in ExtractionFns -> 6
      [] fn = "cmd.retcode" -> 7
      [] fn \in {"os.unlink", "file.remove"} -> 8

JustInvoked(F) == Len(calls') = Len(calls) + 1 /\ calls'[Len(calls')].fn \in F

\* C15: the steps of a call come in the order format check, presence check,
\* cache resolution with at most one fetch, makedirs(name), extraction,
\* accounting; an extraction is invoked only with test mode off, the marker
\* absent at the start, the cache file in place (cached before or fetched
\* with success) and makedirs(name) already invoked; os.unlink and
\* file.remove come only after the extraction.
C15_StepOrdering ==
    [][ /\ pc' = "check_format" => calls' = <<>>
        /\ \A i \in 1..Len(calls'), j \in 1..Len(calls') :
              i < j => StepRank(calls'[i].fn) < StepRank(calls'[j].fn)
        /\ JustInvoked({"os.path.exists"}) =>
              \E i \in 1..Len(calls) : calls[i].fn = "file.directory_exists"
        /\ JustInvoked(ExtractionFns) =>
              /\ ~opts.test
              /\ ~MarkerAtStart
              /\ CachePathOf(Marker, req.archive_format) \in fsFiles
              /\ CacheAtStart \/ (file_result # EmptyDict /\ file_result.result = "True")
              /\ calls[Len(calls)] = [fn |-> "file.makedirs", args |-> <<req.name>>]
        /\ JustInvoked({"os.unlink", "file.remove"}) =>
              /\ CallsTo(ExtractionFns) # {}
              /\ pc = "account"
      ]_vars

\* a call that went through every stage: fetch, makedirs, tar command,
\* probe, unlink
C15_Witness ==
    /\ pc = "done"
    /\ [i \in 1..Len(calls) |-> calls[i].fn] =
          <<"file.directory_exists", "file.file_exists", "os.path.exists",
            "state.high", "file.makedirs", "cmd.run_all", "cmd.retcode", "os.unlink">>

\* ------------------------------------------------------------------ C12
\* C12: the option string passed to the tar command contains 'x' and 'f',
\* ends with the tar_options of the request (flags are only prepended), is
\* the request's string when that already contains both flags, and is
\* unchanged when the request's string is itself a normalised string.
C12_TarOptionNormalization ==
    CallsTo({"cmd.run_all"}) # {} =>
        LET orig == req.tar_options
            post == tar_options
            cmd  == calls[CHOOSE i \in CallsTo({"cmd.run_all"}) : TRUE].args[1]
            both == \A c \in {"x", "f"} : \E i \in 1..Len(orig) : orig[i] = c
        IN  /\ cmd = <<"tar ">> \o post \o <<" \"">>
                        \o CachePathOf(Marker, req.archive_format) \o <<"\"">>
            /\ \A c \in {"x", "f"} : \E i \in 1..Len(post) : post[i] = c
            /\ Len(post) >= Len(orig)
            /\ SubSeq(post, Len(post) - Len(orig) + 1, Len(post)) = orig
            /\ both => post = orig
            /\ orig \in NormalForms => post = orig

\* tar_options 'J' was passed to tar as '-f -x J'
C12_Witness ==
    /\ pc = "done" /\ CallsTo({"cmd.run_all"}) # {}
    /\ req.tar_options = <<"J">>
    /\ tar_options = <<"-", "f", " ", "-", "x", " ", "J">>

\* ------------------------------------------------------------------ C18
\* C18: for one cache directory, a call whose presence marker or format
\* differs from that of the previous call computes a cache path different
\* from the one the previous call computed.
C18_CollisionFree ==
    (filename # EmptyStr /\ prevKey # <<>>
        /\ (prevKey[1] # Marker \/ prevKey[2] # req.archive_format))
    => filename # prevKey[3]

\* ------------------------------------------------------------------ C16
\* C16: when one request is repeated from a state where its presence marker
\* does not exist, a call ends with '<marker> already exists' only if an
\* earlier call ended Changed, and a call that ended with result False does
\* not leave the presence marker existing.
C16_MarkerProvesExtraction ==
    (hist.absent0 /\ pc = "done") =>
        /\ exit = "exists" =>
              \E i \in 1..Len(hist.exits) : hist.exits[i] = "changed"
        /\ ret.result = "False" =>
              (~IsDirIn(Marker, fsDirs) /\ ~IsFileIn(Marker, fsFiles))

\* ------------------------------------------------------------------ C17
\* C17: when if_missing is left to default to name and a call ended Changed,
\* the next call with the same request ends with result True,
\* '<name> already exists' and empty changes, and invokes no fetch, makedirs
\* or extraction, with the cache file kept or not.
C17_Convergence ==
    (InCall /\ Len(hist.exits) > 0 /\ hist.exits[Len(hist.exits)] = "changed"
        /\ req.if_missing = PyNone) =>
        /\ req = hist.request
        /\ NoEffects
        /\ pc \in {"check_format", "check_exists", "done"}
        /\ pc = "done" =>
              /\ exit = "exists"
              /\ ret.result = "True"
              /\ ret.comment = req.name \o <<" already exists">>
              /\ DOMAIN ret.changes = {}

\* the call after a Changed call that kept the cache file
C17_Witness ==
    /\ pc = "done" /\ exit = "exists"
    /\ hist.exits = <<"changed">>
    /\ req.if_missing = PyNone /\ req.keep
    /\ CachePathOf(req.name, req.archive_format) \in fsFiles

====
